---- MODULE Spec2Model ----
(***************************************************************************)
(* Sparkplug B packet construction (sparkplub_b_packets/packets.py).       *)
(*                                                                         *)
(* Strings that the program cuts or joins (identifiers, topics) are        *)
(* sequences of tokens; a literal of the source that holds no '/' is one   *)
(* token.  Python values are records [variant, v]: variant is the runtime  *)
(* type, v a number standing for the value within that type.               *)
(***************************************************************************)
EXTENDS Integers, Sequences, FiniteSets, TLC

VARIABLES
    bdSeq,      \* sparkplug.bdSeq, the process-wide birth/death sequence number
    clock,      \* time.time() in milliseconds
    pkt,        \* the packet object the caller holds
    last,       \* the most recent payload() call on pkt as it is now, and what it returned
    birthBd,    \* bdSeq embedded by the most recent NBIRTH payload (or Unset)
    deathBd,    \* bdSeq embedded by the most recent NDEATH payload (or Unset)
    deathsSince,\* NDEATH payloads built since the most recent NBIRTH payload
    topicOut,   \* the value of the most recent read of pkt.topic
    tpc,        \* per thread: position inside payload()
    tpkt,       \* per thread: the packet it calls payload() on
    tout,       \* per thread: the bdSeq its payload embedded
    bdSeq0      \* bdSeq when the threads were started

vars == <<bdSeq, clock, pkt, last, birthBd, deathBd, deathsSince, topicOut,
          tpc, tpkt, tout, bdSeq0>>

(* ------------------------------ bounds -------------------------------- *)
MaxClock == 2
MaxBdSeq == 3
MaxIdLen == 2
MaxProps == 2
NumThreads == 2

(* --------------------------- Python values ---------------------------- *)
\* A field of a wire record that was never assigned; also "no value yet".
Unset == -1

PyBool(b) == [variant |-> "bool", v |-> b]
PyInt(n) == [variant |-> "int", v |-> n]
PyFloat(n) == [variant |-> "float", v |-> n]
PyStr(n) == [variant |-> "str", v |-> n]
PyNone == [variant |-> "NoneType", v |-> 0]

\* isinstance(x, bool)
IsInstanceBool(x) == x.variant = "bool"
\* isinstance(x, int): bool is a subclass of int
IsInstanceInt(x) == x.variant \in {"int", "bool"}
\* isinstance(x, float)
IsInstanceFloat(x) == x.variant = "float"

\* str(x): the text of x.  A str is its own text; the text of any other
\* value is a string that is no member of the pool of caller strings.
VariantCode(x) ==
    CASE x.variant = "bool" -> 1
      [] x.variant = "int" -> 2
      [] x.variant = "float" -> 3
      [] OTHER -> 4
str(x) ==
    IF x.variant = "str" THEN x
    ELSE PyStr(100 * VariantCode(x) + x.v)

(* --------------------------- wire structures -------------------------- *)
\* sparkplug_b_pb2.Payload.Metric.PropertyValue with nothing assigned
EmptyPropertyValue ==
    [type |-> Unset, bool_value |-> Unset, int_value |-> Unset,
     float_value |-> Unset, string_value |-> Unset]

\* the if/elif chain writing one property value
PropertyValueNoBoolFirst(prop) ==
    LET pv == [EmptyPropertyValue EXCEPT !.type = prop.data_type]
    IN  IF IsInstanceInt(prop.value) THEN [pv EXCEPT !.int_value = prop.value.v]
        ELSE IF IsInstanceBool(prop.value) THEN [pv EXCEPT !.bool_value = prop.value.v]
        ELSE IF IsInstanceFloat(prop.value) THEN [pv EXCEPT !.float_value = prop.value.v]
        ELSE [pv EXCEPT !.string_value = str(prop.value).v]
PropertyValue(prop) ==
    LET pv == [EmptyPropertyValue EXCEPT !.type = prop.data_type]
    IN  IF IsInstanceBool(prop.value) THEN [pv EXCEPT !.bool_value = prop.value.v]
        ELSE IF IsInstanceInt(prop.value) THEN [pv EXCEPT !.int_value = prop.value.v]
        ELSE IF IsInstanceFloat(prop.value) THEN [pv EXCEPT !.float_value = prop.value.v]
        ELSE [pv EXCEPT !.string_value = str(prop.value).v]

\* the loop over metrics[alias].properties: keys and values grow together
RECURSIVE AddPropertiesReversed(_, _)
AddPropertiesReversed(props, acc) ==
    IF props = <<>> THEN acc
    ELSE AddPropertiesReversed(Tail(props),
            [keys |-> <<Head(props).name>> \o acc.keys,
             values |-> <<PropertyValue(Head(props))>> \o acc.values])
RECURSIVE AddProperties(_, _)
AddProperties(props, acc) ==
    IF props = <<>> THEN acc
    ELSE AddProperties(Tail(props),
            [keys |-> Append(acc.keys, Head(props).name),
             values |-> Append(acc.values, PropertyValue(Head(props)))])

EmptyProperties == [keys |-> <<>>, values |-> <<>>]

\* the runtime variants the codec classifies
Classifiable(x) == x.variant \in {"bool", "int", "float", "str"}

\* whether sparkplug.addMetric raises EncodingError for the value
addMetricRaises(value) == ~Classifiable(value)

\* sparkplug.addMetric(container, name, alias, type, value): the metric record
\* it appends, by type-directed dispatch on the value
addMetric(name, alias, type, value) ==
    LET m == [name |-> name, alias |-> alias, datatype |-> type,
              bool_value |-> Unset, int_value |-> Unset, float_value |-> Unset,
              string_value |-> Unset, properties |-> EmptyProperties]
    IN  IF IsInstanceBool(value) THEN [m EXCEPT !.bool_value = value.v]
        ELSE IF IsInstanceInt(value) THEN [m EXCEPT !.int_value = value.v]
        ELSE IF IsInstanceFloat(value) THEN [m EXCEPT !.float_value = value.v]
        ELSE [m EXCEPT !.string_value = str(value).v]

\* payload.SerializeToString(): the wire image holds every assigned field,
\* in order; two messages have the same image iff they agree on all of them
SerializeToString(payload) ==
    [timestamp |-> payload.timestamp, metrics |-> payload.metrics]

\* what a call hands back: bytes, or the exception it raised
Returned(bytes) == [ok |-> TRUE, bytes |-> bytes, error |-> "", alias |-> ""]
Raised(error, alias) ==
    [ok |-> FALSE, bytes |-> [timestamp |-> Unset, metrics |-> <<>>],
     error |-> error, alias |-> alias]

\* one pass of the loop body of marshal_payload for a metric
MarshalMetric(metric) ==
    LET m == addMetric(metric.alias, metric.alias_map, metric.data_type, metric.value)
    IN  IF metric.properties # <<>>
        THEN [m EXCEPT !.properties = AddProperties(metric.properties, m.properties)]
        ELSE m

\* SparkplugBPacket.marshal_payload(payload, metrics): the loop over
\* list(metrics), left by an exception of addMetric, then SerializeToString
RECURSIVE marshal_loop(_, _)
marshal_loop(payload, metrics) ==
    IF metrics = <<>> THEN Returned(SerializeToString(payload))
    ELSE IF addMetricRaises(Head(metrics).value)
         THEN Raised("EncodingError", Head(metrics).alias)
         ELSE marshal_loop(
                [payload EXCEPT !.metrics = Append(@, MarshalMetric(Head(metrics)))],
                Tail(metrics))
marshal_payload(payload, metrics) == marshal_loop(payload, metrics)

(* --------------------------- Sequence Context ------------------------- *)
\* sparkplug.getNodeBirthPayload(): stamps the time and the current bdSeq,
\* which it leaves as it is
getNodeBirthPayload(bd, now) ==
    [payload |-> [timestamp |-> now,
                  metrics |-> <<addMetric("bdSeq", Unset, 4, PyInt(bd))>>],
     bdSeq |-> bd]

\* sparkplug.getNodeDeathPayload(): embeds the current bdSeq, then advances
\* it, in one step
getNodeDeathPayload(bd) ==
    [payload |-> [timestamp |-> Unset,
                  metrics |-> <<addMetric("bdSeq", Unset, 4, PyInt(bd))>>],
     bdSeq |-> bd + 1]

\* sparkplug.getDeviceBirthPayload(): the time only
getDeviceBirthPayload(now) == [timestamp |-> now, metrics |-> <<>>]

\* sparkplug_b_pb2.Payload() followed by payload.timestamp = int(round(time.time() * 1000))
TimestampedPayload(now) == [timestamp |-> now, metrics |-> <<>>]

(* ------------------------------- packets ------------------------------ *)
\* an optional mapping argument: None, or a mapping (a sequence of metrics,
\* in insertion order)
None == [given |-> FALSE, map |-> <<>>]
Some(m) == [given |-> TRUE, map |-> m]
\* the truth value of "metrics" in "metrics if metrics else ...": None and
\* the empty mapping are both false
Truthy(metrics) == metrics.given /\ metrics.map # <<>>

\* the device of a packet class that has none
NoDevice == <<"-">>
\* the default of DBirthPacket.__init__'s device_id
DefaultDevice == <<"OGI">>

NodeKinds == {"NBIRTH", "NDATA", "NCMD", "NDEATH", "DCMD"}
DeviceKinds == {"DBIRTH", "DDATA", "DDEATH"}
Kinds == NodeKinds \cup DeviceKinds
DeathKinds == {"NDEATH", "DDEATH"}

\* SparkplugBPacket.__init__(group, node)
SparkplugBPacket(kind, group, node) ==
    [kind |-> kind, _group |-> group, _node |-> node,
     _device_id |-> NoDevice, _metrics |-> <<>>]

\* NBirthPacket / NDataPacket / NCmdPacket / DCmdPacket .__init__ (NDeathPacket
\* inherits NBirthPacket's)
NodePacket(kind, group, node, metrics) ==
    [SparkplugBPacket(kind, group, node) EXCEPT
        !._metrics = IF Truthy(metrics) THEN metrics.map ELSE <<>>]

\* DBirthPacket.__init__ (inherited by DDataPacket and DDeathPacket)
DevicePacket(kind, group, node, device_id, metrics) ==
    [SparkplugBPacket(kind, group, node) EXCEPT
        !._device_id = device_id,
        !._metrics = IF Truthy(metrics) THEN metrics.map ELSE <<>>]

(* ------------------------------- topics ------------------------------- *)
\* f"spBv1.0/{self._group}/KIND/{self._node}"
NodeTopic(self, kind) ==
    <<"spBv1.0", "/">> \o self._group \o <<"/", kind, "/">> \o self._node
\* f"spBv1.0/{self._group}/KIND/{self._node}/{self._device_id}"
DeviceTopicNoDevice(self, kind) ==
    <<"spBv1.0", "/">> \o self._group \o <<"/", kind, "/">> \o self._node
DeviceTopic(self, kind) ==
    <<"spBv1.0", "/">> \o self._group \o <<"/", kind, "/">> \o self._node
        \o <<"/">> \o self._device_id

\* the topic property of each class
topic(self) ==
    CASE self.kind = "NBIRTH" -> NodeTopic(self, "NBIRTH")
      [] self.kind = "NDATA" -> NodeTopic(self, "NDATA")
      [] self.kind = "NCMD" -> NodeTopic(self, "NCMD")
      [] self.kind = "NDEATH" -> NodeTopic(self, "NDEATH")
      [] self.kind = "DBIRTH" -> DeviceTopic(self, "DBIRTH")
      [] self.kind = "DDATA" -> DeviceTopic(self, "DDATA")
      [] self.kind = "DCMD" -> NodeTopic(self, "DCMD")
      [] self.kind = "DDEATH" -> DeviceTopic(self, "DDEATH")

(* ------------------------------ payloads ------------------------------ *)
\* "metrics if metrics else self.metrics"
MetricsToEncode(self, metrics) ==
    IF Truthy(metrics) THEN metrics.map ELSE self._metrics

\* Each payload() gives the value returned (or the exception) and the bdSeq
\* it leaves behind.

\* NBirthPacket.payload
NBirthAdvances_payload(self, metrics, bd, now) ==
    LET b == getNodeBirthPayload(bd, now)
    IN  [out |-> marshal_payload(b.payload, MetricsToEncode(self, metrics)),
         bdSeq |-> b.bdSeq + 1]
NBirthPacket_payload(self, metrics, bd, now) ==
    LET b == getNodeBirthPayload(bd, now)
    IN  [out |-> marshal_payload(b.payload, MetricsToEncode(self, metrics)),
         bdSeq |-> b.bdSeq]

\* NDataPacket.payload, DBirthPacket.payload, DDataPacket.payload
DeviceBirthShaped_payload(self, metrics, bd, now) ==
    [out |-> marshal_payload(getDeviceBirthPayload(now), MetricsToEncode(self, metrics)),
     bdSeq |-> bd]

\* NCmdPacket.payload, DCmdPacket.payload
Cmd_payload(self, metrics, bd, now) ==
    [out |-> marshal_payload(TimestampedPayload(now), MetricsToEncode(self, metrics)),
     bdSeq |-> bd]

\* NDeathPacket.payload
NDeathInheritsBirth_payload(self, metrics, bd, now) ==
    LET b == getNodeBirthPayload(bd, now)
    IN  [out |-> Returned(SerializeToString(b.payload)), bdSeq |-> b.bdSeq]
NDeathPacket_payload(self, metrics, bd, now) ==
    LET d == getNodeDeathPayload(bd)
    IN  [out |-> Returned(SerializeToString(d.payload)), bdSeq |-> d.bdSeq]

\* DDeathPacket.payload
DDeathMarshals_payload(self, metrics, bd, now) ==
    DeviceBirthShaped_payload(self, metrics, bd, now)
DDeathPacket_payload(self, metrics, bd, now) ==
    [out |-> Returned(SerializeToString(getDeviceBirthPayload(now))), bdSeq |-> bd]

\* payload() of the packet's class
payload(self, metrics, bd, now) ==
    CASE self.kind = "NBIRTH" -> NBirthPacket_payload(self, metrics, bd, now)
      [] self.kind \in {"NDATA", "DBIRTH", "DDATA"} ->
            DeviceBirthShaped_payload(self, metrics, bd, now)
      [] self.kind \in {"NCMD", "DCMD"} -> Cmd_payload(self, metrics, bd, now)
      [] self.kind = "NDEATH" -> NDeathPacket_payload(self, metrics, bd, now)
      [] self.kind = "DDEATH" -> DDeathPacket_payload(self, metrics, bd, now)

\* the bdSeq a returned payload embeds, Unset when it embeds none
EmbeddedBdSeq(out) ==
    IF out.ok /\ out.bytes.metrics # <<>> /\ out.bytes.metrics[1].name = "bdSeq"
    THEN out.bytes.metrics[1].int_value
    ELSE Unset

(* ------------------------- the caller's inputs ------------------------ *)
\* identifiers: token sequences of up to MaxIdLen tokens, '/' among them
Chars == {"a", "/"}
Ids == UNION {[1..n -> Chars] : n \in 0..MaxIdLen}

\* metrics and mappings of the lifecycle runs
MetricA ==
    [alias |-> "a", alias_map |-> 1, data_type |-> 11, value |-> PyBool(1),
     properties |-> <<>>]
MetricC ==
    [alias |-> "c", alias_map |-> 3, data_type |-> 4, value |-> PyInt(7),
     properties |-> <<[name |-> "Setpoint", data_type |-> 5, value |-> PyInt(0)]>>]
StoredPool == {None, Some(<<>>), Some(<<MetricA>>)}
OverridePool == {None, Some(<<>>), Some(<<MetricC>>)}
MutatedValues == {PyBool(1), PyInt(5)}

\* metrics and mappings of the codec runs: every runtime variant as a metric
\* value and as a property value, property lists of up to MaxProps entries
Values == {PyBool(1), PyInt(1), PyFloat(1), PyStr(1), PyNone}
PropPool ==
    {[name |-> "Setpoint", data_type |-> 5, value |-> v] : v \in Values}
    \cup {[name |-> "Quality", data_type |-> 9, value |-> v] : v \in Values}
PropLists == UNION {[1..n -> PropPool] : n \in 0..MaxProps}
MetricB ==
    [alias |-> "b", alias_map |-> 2, data_type |-> 7, value |-> PyInt(3),
     properties |-> <<[name |-> "Count", data_type |-> 7, value |-> PyInt(2)]>>]
RichMetrics ==
    {[alias |-> "a", alias_map |-> 1, data_type |-> 9, value |-> v, properties |-> ps] :
        v \in Values, ps \in PropLists}
RichMappings == {<<m>> : m \in RichMetrics} \cup {<<m, MetricB>> : m \in RichMetrics}

(* -------------------------------- state ------------------------------- *)
Threads == 1..NumThreads

NoOut == Raised("", "")
NoCall ==
    [called |-> FALSE, kind |-> "", override |-> None, stored |-> <<>>,
     bdBefore |-> Unset, clk |-> Unset, out |-> NoOut, bd |-> Unset,
     rep |-> FALSE, prevOut |-> NoOut]

\* the state of a process that has imported the module and built one packet
InitCommon ==
    /\ bdSeq = 0
    /\ clock = 0
    /\ last = NoCall
    /\ birthBd = Unset
    /\ deathBd = Unset
    /\ deathsSince = 0
    /\ topicOut = <<>>

NoThreads ==
    /\ tpc = [t \in Threads |-> "done"]
    /\ tpkt = [t \in Threads |-> SparkplugBPacket("NDATA", <<"g">>, <<"n">>)]
    /\ tout = [t \in Threads |-> Unset]
    /\ bdSeq0 = 0

Init ==
    /\ InitCommon
    /\ NoThreads
    /\ pkt = NodePacket("NBIRTH", <<"g">>, <<"n">>, None)

(* ------------------------------- actions ------------------------------ *)
threadVars == <<tpc, tpkt, tout, bdSeq0>>
seqVars == <<bdSeq, birthBd, deathBd, deathsSince>>

\* the caller builds a packet of some class; nothing was asked of it yet
Construct ==
    /\ \E k \in Kinds, m \in StoredPool :
         pkt' = IF k \in DeviceKinds
                THEN DevicePacket(k, <<"g">>, <<"n">>, DefaultDevice, m)
                ELSE NodePacket(k, <<"g">>, <<"n">>, m)
    /\ last' = NoCall
    /\ topicOut' = <<>>
    /\ UNCHANGED <<seqVars, clock, threadVars>>

\* the caller assigns a metric's value in place: packet.metrics[alias].value = v
Mutate ==
    /\ pkt._metrics # <<>>
    /\ \E v \in MutatedValues :
         /\ v # pkt._metrics[1].value
         /\ pkt' = [pkt EXCEPT !._metrics[1].value = v]
    /\ last' = NoCall
    /\ UNCHANGED <<seqVars, clock, topicOut, threadVars>>

\* the millisecond clock moves on
Tick ==
    /\ clock < MaxClock
    /\ clock' = clock + 1
    /\ UNCHANGED <<seqVars, pkt, last, topicOut, threadVars>>

\* self.topic
TopicRead ==
    /\ topicOut' = topic(pkt)
    /\ UNCHANGED <<seqVars, clock, pkt, last, threadVars>>

\* what a call of pkt.payload(override) does to everything but topicOut
PayloadEffect(override) ==
    LET r == payload(pkt, override, bdSeq, clock)
        bd == IF pkt.kind \in {"NBIRTH", "NDEATH"} THEN EmbeddedBdSeq(r.out) ELSE Unset
        rep == last.called /\ last.override = override
    IN  /\ pkt.kind = "NDEATH" => bdSeq < MaxBdSeq
        /\ bdSeq' = r.bdSeq
        /\ last' = [called |-> TRUE, kind |-> pkt.kind, override |-> override,
                    stored |-> pkt._metrics, bdBefore |-> bdSeq, clk |-> clock,
                    out |-> r.out, bd |-> bd, rep |-> rep,
                    prevOut |-> IF rep THEN last.out ELSE NoOut]
        /\ birthBd' = IF pkt.kind = "NBIRTH" /\ r.out.ok THEN bd ELSE birthBd
        /\ deathBd' = IF pkt.kind = "NDEATH" THEN bd ELSE deathBd
        /\ deathsSince' = IF pkt.kind = "NBIRTH" /\ r.out.ok THEN 0
                          ELSE IF pkt.kind = "NDEATH" THEN deathsSince + 1
                          ELSE deathsSince
        /\ UNCHANGED <<clock, pkt, threadVars>>

\* pkt.payload(override)
Payload ==
    /\ \E o \in OverridePool : PayloadEffect(o)
    /\ UNCHANGED topicOut

\* str(pkt): f"topic: {self.topic}\npayload: {self.payload()}"
Str ==
    /\ topicOut' = topic(pkt)
    /\ PayloadEffect(None)

Next == Construct \/ Mutate \/ Tick \/ TopicRead \/ Payload \/ Str

Spec == Init /\ [][Next]_vars

(* ----------------------- the codec on rich mappings ------------------- *)
InitCodec ==
    /\ InitCommon
    /\ NoThreads
    /\ \E k \in {"NBIRTH", "NDATA"}, m \in RichMappings :
         pkt = NodePacket(k, <<"g">>, <<"n">>, Some(m))

\* pkt.payload()
Encode ==
    /\ ~last.called
    /\ PayloadEffect(None)
    /\ UNCHANGED topicOut

NextCodec == Encode

SpecCodec == InitCodec /\ [][NextCodec]_vars

(* ----------------------- topics of any identifiers -------------------- *)
InitTopic ==
    /\ InitCommon
    /\ NoThreads
    /\ \/ \E k \in NodeKinds, g \in Ids, n \in Ids : pkt = NodePacket(k, g, n, None)
       \/ \E k \in DeviceKinds, g \in Ids, n \in Ids, d \in Ids \cup {DefaultDevice} :
            pkt = DevicePacket(k, g, n, d, None)

NextTopic == TopicRead

SpecTopic == InitTopic /\ [][NextTopic]_vars

(* ------------------- threads building birth and death ----------------- *)
InitThreads ==
    /\ InitCommon
    /\ pkt = NodePacket("NBIRTH", <<"g">>, <<"n">>, None)
    /\ tpc = [t \in Threads |-> "start"]
    /\ tpkt \in [Threads -> {NodePacket(k, <<"g">>, n, None) :
                               k \in {"NBIRTH", "NDEATH"}, n \in {<<"n">>, <<"m">>}}]
    /\ tout = [t \in Threads |-> Unset]
    /\ bdSeq0 = bdSeq

\* log.debug(f"... pre bdSeq: {sparkplug.bdSeq}"): a read
ThreadEnter(t) ==
    /\ tpc[t] = "start"
    /\ tpc' = [tpc EXCEPT ![t] = "pre"]
    /\ UNCHANGED <<seqVars, clock, pkt, last, topicOut, tpkt, tout, bdSeq0>>

\* sparkplug.getNodeBirthPayload() / sparkplug.getNodeDeathPayload()
ThreadBuild(t) ==
    LET r == payload(tpkt[t], None, bdSeq, clock)
    IN  /\ tpc[t] = "pre"
        /\ tpc' = [tpc EXCEPT ![t] = "post"]
        /\ bdSeq' = r.bdSeq
        /\ tout' = [tout EXCEPT ![t] = EmbeddedBdSeq(r.out)]
        /\ UNCHANGED <<birthBd, deathBd, deathsSince, clock, pkt, last, topicOut,
                       tpkt, bdSeq0>>

\* the second log.debug, then the serialized payload is returned
ThreadReturn(t) ==
    /\ tpc[t] = "post"
    /\ tpc' = [tpc EXCEPT ![t] = "done"]
    /\ UNCHANGED <<seqVars, clock, pkt, last, topicOut, tpkt, tout, bdSeq0>>

ThreadStep(t) == ThreadEnter(t) \/ ThreadBuild(t) \/ ThreadReturn(t)

NextThreads == \E t \in Threads : ThreadStep(t)

SpecThreads == InitThreads /\ [][NextThreads]_vars

(* ====================================================================== *)
(*                               properties                               *)
(* ====================================================================== *)
\* the names of the metrics a payload holds, in order
EncodedNames(bytes) == [i \in 1..Len(bytes.metrics) |-> bytes.metrics[i].name]
\* the aliases of a mapping, in order
Aliases(m) == [i \in 1..Len(m) |-> m[i].alias]
\* the metrics the base message of a kind brings along (NBIRTH: bdSeq)
BaseCount(kind) == IF kind \in {"NBIRTH", "NDEATH"} THEN 1 ELSE 0
\* the names of the metrics the caller's mapping contributed
CallerNames(kind, bytes) ==
    [i \in 1..(Len(bytes.metrics) - BaseCount(kind)) |->
        bytes.metrics[i + BaseCount(kind)].name]
\* the value fields of a wire record that are assigned
FieldsSet(r) ==
    {f \in {"bool_value", "int_value", "float_value", "string_value"} : r[f] # Unset}

\* C1 (as stated): every NDEATH payload embeds the bdSeq of the most recent
\* NBIRTH payload, and an NBIRTH payload after an NDEATH embeds the NDEATH's
\* value plus 1.
C1_DeathEchoesLastBirth ==
    /\ (last.called /\ last.kind = "NDEATH" /\ birthBd # Unset) => last.bd = birthBd
    /\ (last.called /\ last.kind = "NBIRTH" /\ deathBd # Unset) => last.bd = deathBd + 1

\* C1 (amended): an NDEATH payload embeds the bdSeq of the most recent NBIRTH
\* payload plus the number of NDEATH payloads built since that NBIRTH before
\* it (so the first NDEATH after a birth echoes the birth), and an NBIRTH
\* payload after an NDEATH embeds the last NDEATH's value plus 1.
C1_DeathEchoesBirthPlusEarlierDeaths ==
    /\ (last.called /\ last.kind = "NDEATH" /\ birthBd # Unset)
          => last.bd = birthBd + (deathsSince - 1)
    /\ (last.called /\ last.kind = "NBIRTH" /\ deathBd # Unset) => last.bd = deathBd + 1

\* C1 witness: a second NDEATH payload since the same NBIRTH payload
C1_Witness ==
    last.called /\ last.kind = "NDEATH" /\ birthBd # Unset /\ deathsSince = 2

\* C2: for every kind but NDEATH and DDEATH, a payload built with an override
\* mapping (the empty one too) holds exactly the override's metrics, and one
\* built without an override holds the stored metrics.
C2_OverrideEncodedExactly ==
    (last.called /\ last.kind \notin DeathKinds /\ last.out.ok) =>
        CallerNames(last.kind, last.out.bytes) =
            IF last.override.given THEN Aliases(last.override.map)
            ELSE Aliases(last.stored)

RECURSIVE Join(_)
Join(segs) ==
    IF Len(segs) = 1 THEN segs[1]
    ELSE segs[1] \o <<"/">> \o Join(Tail(segs))
\* the segments of the template of a packet's kind
TemplateSegments(p) ==
    IF p.kind \in {"DBIRTH", "DDATA", "DDEATH"}
    THEN <<(<<"spBv1.0">>), p._group, <<p.kind>>, p._node, p._device_id>>
    ELSE <<(<<"spBv1.0">>), p._group, <<p.kind>>, p._node>>

\* C5: the topic read from a packet is its kind's template filled with the
\* identifiers given at construction (DCMD without a device segment), and
\* the read has changed nothing else.
C5_TopicIsTemplate ==
    topicOut # <<>> =>
        /\ topicOut = Join(TemplateSegments(pkt))
        /\ bdSeq = 0 /\ clock = 0 /\ last = NoCall
        /\ birthBd = Unset /\ deathBd = Unset /\ deathsSince = 0

\* C5 witness: the topic of a DDATA packet built without a device_id was read
C5_Witness ==
    topicOut # <<>> /\ pkt.kind = "DDATA" /\ pkt._device_id = DefaultDevice
        /\ pkt._group = <<"a", "a">>

\* the '/'-separated segments of a topic
RECURSIVE SplitFrom(_, _, _)
SplitFrom(s, cur, acc) ==
    IF s = <<>> THEN Append(acc, cur)
    ELSE IF Head(s) = "/" THEN SplitFrom(Tail(s), <<>>, Append(acc, cur))
    ELSE SplitFrom(Tail(s), Append(cur, Head(s)), acc)
Split(s) == SplitFrom(s, <<>>, <<>>)

\* C6: no topic with an empty segment, or with more segments than its
\* template, is ever produced.
C6_NoMalformedTopic ==
    topicOut # <<>> =>
        /\ Len(Split(topicOut)) = Len(TemplateSegments(pkt))
        /\ \A i \in 1..Len(Split(topicOut)) : Split(topicOut)[i] # <<>>

\* the aliases of the metrics of a mapping that hold, as their value or as a
\* property's value, something of no classifiable variant
Offending(m) ==
    {m[i].alias : i \in {j \in 1..Len(m) :
        \/ ~Classifiable(m[j].value)
        \/ \E k \in 1..Len(m[j].properties) : ~Classifiable(m[j].properties[k].value)}}

\* C7: encoding a mapping that holds a value of no classifiable variant
\* raises EncodingError naming the alias, and returns no payload.
C7_UnclassifiableRaises ==
    (last.called /\ Offending(last.stored) # {}) =>
        /\ ~last.out.ok
        /\ last.out.error = "EncodingError"
        /\ last.out.alias \in Offending(last.stored)

\* C8: an NDEATH payload is the bdSeq metric alone and a DDEATH payload is
\* the timestamped message with no metric, whatever metrics the packet
\* stores and whatever override is passed.
C8_DeathIgnoresMetrics ==
    (last.called /\ last.kind \in DeathKinds) =>
        /\ last.out.ok
        /\ last.kind = "NDEATH" =>
              /\ last.out.bytes.timestamp = Unset
              /\ EncodedNames(last.out.bytes) = <<"bdSeq">>
              /\ last.out.bytes.metrics[1].int_value = last.bdBefore
              /\ last.out.bytes.metrics[1].properties = EmptyProperties
        /\ last.kind = "DDEATH" =>
              last.out.bytes = [timestamp |-> last.clk, metrics |-> <<>>]

\* C8 witness: a DDEATH payload built with stored metrics and an override
C8_Witness ==
    /\ last.called /\ last.kind = "DDEATH"
    /\ last.stored # <<>> /\ Truthy(last.override)

\* C9: the keys and values of every encoded metric are as long as its
\* property list, key i is property i's name, value i has property i's
\* data_type and (for a bool, int, float or str) its value.
C9_PropertiesAligned ==
    (last.called /\ last.out.ok) =>
        /\ Len(last.out.bytes.metrics) = Len(last.stored) + BaseCount(last.kind)
        /\ \A i \in 1..Len(last.stored) :
             LET m == last.stored[i]
                 e == last.out.bytes.metrics[i + BaseCount(last.kind)]
             IN  /\ Len(e.properties.keys) = Len(m.properties)
                 /\ Len(e.properties.values) = Len(m.properties)
                 /\ \A j \in 1..Len(m.properties) :
                      /\ e.properties.keys[j] = m.properties[j].name
                      /\ e.properties.values[j].type = m.properties[j].data_type
                      /\ Classifiable(m.properties[j].value) =>
                            \E f \in FieldsSet(e.properties.values[j]) :
                                e.properties.values[j][f] = m.properties[j].value.v

\* C9 witness: two metrics encoded, the first with two properties of
\* different names and values
C9_Witness ==
    /\ last.called /\ last.out.ok
    /\ Len(last.stored) = 2
    /\ Len(last.stored[1].properties) = 2
    /\ last.stored[1].properties[1].name # last.stored[1].properties[2].name
    /\ last.stored[1].properties[1].value # last.stored[1].properties[2].value

\* the one value field a value of a variant belongs in
FieldOf(x) ==
    CASE x.variant = "bool" -> "bool_value"
      [] x.variant = "int" -> "int_value"
      [] x.variant = "float" -> "float_value"
      [] OTHER -> "string_value"

\* C10: every encoded metric and property has exactly one value field set:
\* bool_value for a bool, int_value for an int, float_value for a float.
C10_BoolBeforeInt ==
    (last.called /\ last.out.ok) =>
        \A i \in 1..Len(last.stored) :
            LET m == last.stored[i]
                e == last.out.bytes.metrics[i + BaseCount(last.kind)]
            IN  /\ FieldsSet(e) = {FieldOf(m.value)}
                /\ m.value.variant \in {"bool", "int", "float"}
                      => e[FieldOf(m.value)] = m.value.v
                /\ \A j \in 1..Len(m.properties) :
                      LET p == m.properties[j]
                          pv == e.properties.values[j]
                      IN  /\ FieldsSet(pv) = {FieldOf(p.value)}
                          /\ p.value.variant \in {"bool", "int", "float"}
                                => pv[FieldOf(p.value)] = p.value.v

\* C10 witness: a bool metric with a bool property was encoded
C10_Witness ==
    /\ last.called /\ last.out.ok
    /\ last.stored[1].value = PyBool(1)
    /\ \E j \in 1..Len(last.stored[1].properties) :
          last.stored[1].properties[j].value = PyBool(1)

====
